---- MODULE Spec2Model ----
(***************************************************************************)
(* A model of the PnPify SDK generator                                     *)
(* (packages/yarnpkg-pnpify/sources/generateSdk.ts):                       *)
(*   - the IntegrationsFile state file (load / exportTo / persist / find), *)
(*   - the Wrapper class (writeManifest / writeFile / writeBinary /        *)
(*     getProjectPathTo),                                                  *)
(*   - the run-time behaviour of the scripts rendered by TEMPLATE,         *)
(*   - the generateSdk orchestrator.                                       *)
(* Four specifications share the variables: SpecFile, SpecWrapper,         *)
(* SpecScript and Spec (generateSdk).                                      *)
(***************************************************************************)
EXTENDS Integers, Sequences, FiniteSets, TLC

VARIABLES
  \* ---- IntegrationsFile ----
  file,        \* the IntegrationsFile instance: [integrations, raw]
  found,       \* what IntegrationsFile.find last returned
  loadError,   \* the error the last load / loadFile / find raised
  stage,       \* how far a load -> persist -> find round trip has got
  loadArg,     \* what the last call, if it was load, was handed
  \* ---- the filesystem ----
  outExists,   \* <projectRoot>/.yarn/sdks exists
  ymlFile,     \* <projectRoot>/.yarn/sdks/integrations.yml
  shims,       \* the other files under .yarn/sdks: path -> content
  fresh,       \* the paths under .yarn/sdks written by the current run
  legacy,      \* <projectRoot>/.vscode/pnpify: "absent", "dir" or "symlink"
  linkTarget,  \* what a legacy symlink points to exists and is intact
  editor,      \* the editor settings the generators of the current call wrote
  deps,        \* the top-level packageDependencies
  \* ---- Wrapper ----
  wrappers,    \* the Wrapper instances: id -> [live, name, paths]
  passed,      \* per instance, the paths handed to writeFile / writeBinary
  wres,        \* what the last Wrapper call returned or threw
  \* ---- processes that load generated scripts ----
  procs,       \* id -> the state of a node process
  bootstrap,   \* the resolution bootstrap file (.pnp.js) exists
  \* ---- a generateSdk call ----
  pc,          \* where the call is
  requestedIntegrations, preexistingIntegrations, onlyBase, verbose,
  allIntegrations,
  sdksIndex,   \* position in integrationSdks (default and integration loops)
  baseIndex,   \* position in BASE_SDKS
  skipped,     \* the skipped display names
  reports,     \* what the Report has been handed, in order
  invoked,     \* the generators invoked, in order
  lastCall,    \* the previous call: whether it aborted, and, if it
               \* completed and the dependency set has not changed since,
               \* what it was handed
  sameInputs,  \* this call repeats that previous call
  prevYml, prevShims  \* the output that previous call left

fileVars == <<file, found, loadError, stage, loadArg>>
wrapVars == <<wrappers, passed, wres>>
procVars == <<procs, bootstrap>>
sdkVars  == <<pc, requestedIntegrations, preexistingIntegrations, onlyBase, verbose,
              allIntegrations, sdksIndex, baseIndex, skipped, reports, invoked, lastCall,
              sameInputs, prevYml, prevShims>>
fsVars   == <<outExists, ymlFile, shims, fresh, legacy, linkTarget, editor, deps>>

(***************************************************************************)
(* Bounds                                                                  *)
(***************************************************************************)
MaxLen == 2      \* longest `integrations` array handed to load
MaxWrappers == 2 \* Wrapper instances alive at once in SpecWrapper
MaxProcs == 2    \* processes of one process tree
MaxLoads == 2    \* generated scripts one process loads
NumSdks == 2     \* how many entries of BASE_SDKS are modelled

(***************************************************************************)
(* Generic helpers                                                         *)
(***************************************************************************)
Range(s) == {s[i] : i \in 1..Len(s)}

SeqsUpTo(S, n) == UNION {[1..k -> S] : k \in 0..n}

\* new Set(array): insertion order, first occurrence kept
RECURSIVE NewSet(_)
NewSet(arr) ==
  IF arr = <<>> THEN <<>>
  ELSE LET front == NewSet(SubSeq(arr, 1, Len(arr) - 1))
           last  == arr[Len(arr)]
       IN  IF last \in Range(front) THEN front ELSE Append(front, last)

(***************************************************************************)
(* Constants of generateSdk.ts                                             *)
(***************************************************************************)
OLD_SDK_FOLDER == <<".vscode", "pnpify">>
SDK_FOLDER == <<".yarn", "sdks">>
INTEGRATIONS_FILE == "integrations.yml"

\* the keys of the SUPPORTED_INTEGRATIONS map, in insertion order
SUPPORTED_INTEGRATIONS == <<"vim", "vscode">>

\* identifiers the arrays of every length are built from: a supported one
\* and two others
Identifiers == {"vscode", "emacs", "atom"}

\* the arrays that list the other supported identifier
VimArrays ==
  { <<"vim">>, <<"vim", "vim">>, <<"vim", "vscode">>, <<"vscode", "vim">>,
    <<"vim", "emacs">>, <<"atom", "vim">> }

NoError == [kind |-> "none", detail |-> <<>>, path |-> <<>>]

validateIntegrations_reportsFirstOnly(integrations) ==
  LET unsupportedIntegrations ==
        SelectSeq(integrations, LAMBDA i : i \notin Range(SUPPORTED_INTEGRATIONS))
  IN  IF Len(unsupportedIntegrations) > 0
      THEN [kind |-> "UsageError", detail |-> <<unsupportedIntegrations[1]>>, path |-> <<>>]
      ELSE NoError

\* the error validateIntegrations throws (NoError when it returns)
validateIntegrations(integrations) ==
  LET unsupportedIntegrations ==
        SelectSeq(integrations, LAMBDA i : i \notin Range(SUPPORTED_INTEGRATIONS))
  IN  IF Len(unsupportedIntegrations) > 0
      THEN [kind |-> "UsageError", detail |-> unsupportedIntegrations, path |-> <<>>]
      ELSE NoError

(***************************************************************************)
(* Documents: a parsed syml mapping is a function from its keys to values; *)
(* a value is a sequence of strings or a string.                           *)
(***************************************************************************)
ArrayVal(items) == [kind |-> "seq", items |-> items, text |-> ""]
StrVal(text)    == [kind |-> "str", items |-> <<>>, text |-> text]

EmptyDoc == [k \in {} |-> StrVal("")]

UnknownKey == "editorVersion"

\* the order stringifySyml emits the keys in (sorted)
KeyOrder == <<"editorVersion", "integrations">>

IntegrationValues ==
  {ArrayVal(a) : a \in SeqsUpTo(Identifiers, MaxLen) \cup VimArrays}
  \cup {StrVal("vscode")}

\* with an unknown key next to them, only a few of these
FewIntegrationValues ==
  {ArrayVal(<<>>), ArrayVal(<<"vscode">>), ArrayVal(<<"vim", "emacs">>), StrVal("vscode")}

Docs ==
  {EmptyDoc}
  \cup {[k \in {"integrations"} |-> v] : v \in IntegrationValues}
  \cup {[k \in {UnknownKey} |-> StrVal("1.2")]}
  \cup {[k \in {"integrations", UnknownKey} |->
           IF k = "integrations" THEN v ELSE StrVal("1.2")] : v \in FewIntegrationValues}

\* what load may be handed: a mapping, null, or a scalar
ObjectData(doc) == [type |-> "object", doc |-> doc]
NoArg == [type |-> "none", doc |-> EmptyDoc]
LoadInputs ==
  {ObjectData(d) : d \in Docs}
  \cup {[type |-> "null", doc |-> EmptyDoc], [type |-> "string", doc |-> EmptyDoc]}

\* stringifySyml: one entry per key, in key order
stringifySyml(doc) ==
  LET keys == SelectSeq(KeyOrder, LAMBDA k : k \in DOMAIN doc)
  IN  [i \in 1..Len(keys) |-> [key |-> keys[i], value |-> doc[keys[i]]]]

\* parseSyml of well-formed text: the mapping its entries spell out
parseSyml(lines) ==
  [k \in {lines[i].key : i \in 1..Len(lines)} |->
     (CHOOSE l \in Range(lines) : l.key = k).value]

\* a file: absent, or text made of the banner comment and the entries
NoFile == [present |-> FALSE, banner |-> FALSE, wellFormed |-> TRUE, lines |-> <<>>]
TextFile(banner, lines) ==
  [present |-> TRUE, banner |-> banner, wellFormed |-> TRUE, lines |-> lines]
MalformedFile == [present |-> TRUE, banner |-> FALSE, wellFormed |-> FALSE, lines |-> <<>>]

(***************************************************************************)
(* IntegrationsFile                                                        *)
(***************************************************************************)
NewIntegrationsFile == [integrations |-> <<>>, raw |-> EmptyDoc]

NoResult == [present |-> FALSE, integrations |-> <<>>, raw |-> EmptyDoc]
Result(f) == [present |-> TRUE, integrations |-> f.integrations, raw |-> f.raw]

IsArray(data, key) == key \in DOMAIN data /\ data[key].kind = "seq"

\* load(data): the instance and the error it leaves
loadState(self, data) ==
  IF data.type # "object" THEN self
  ELSE IF IsArray(data.doc, "integrations")
       THEN [integrations |-> NewSet(data.doc["integrations"].items), raw |-> data.doc]
       ELSE [self EXCEPT !.raw = data.doc]

loadThrows(self, data) ==
  IF data.type # "object"
  THEN [kind |-> "Error", detail |-> <<>>, path |-> <<>>]
  ELSE IF IsArray(data.doc, "integrations")
       THEN validateIntegrations(loadState(self, data).integrations)
       ELSE NoError

exportTo_needsTwo(self, data) ==
  IF Len(self.integrations) > 1
  THEN [k \in DOMAIN data \cup {"integrations"} |->
          IF k = "integrations" THEN ArrayVal(self.integrations) ELSE data[k]]
  ELSE data

exportTo_always(self, data) ==
  [k \in DOMAIN data \cup {"integrations"} |->
     IF k = "integrations" THEN ArrayVal(self.integrations) ELSE data[k]]

exportTo(self, data) ==
  IF Len(self.integrations) > 0
  THEN [k \in DOMAIN data \cup {"integrations"} |->
          IF k = "integrations" THEN ArrayVal(self.integrations) ELSE data[k]]
  ELSE data

\* the content persist writes to <dir>/integrations.yml
persistContent(self) == TextFile(TRUE, stringifySyml(exportTo(self, EmptyDoc)))

\* loadFile(path): parse (content || `{}`), then load
loadFileData(content) ==
  IF ~content.banner /\ content.lines = <<>> /\ content.wellFormed
  THEN ObjectData(EmptyDoc)
  ELSE ObjectData(parseSyml(content.lines))

loadFileThrows(self, content, path) ==
  IF ~content.wellFormed
  THEN [kind |-> "ParseError", detail |-> <<>>, path |-> path]
  ELSE loadThrows(self, loadFileData(content))

loadFileState(self, content) ==
  IF ~content.wellFormed THEN self ELSE loadState(self, loadFileData(content))

(***************************************************************************)
(* Paths are sequences of segments (ppath.join, ppath.dirname,             *)
(* ppath.relative of @yarnpkg/fslib)                                       *)
(***************************************************************************)
ProjectRoot == <<"project">>

\* pnpApi.resolveRequest(`pnpapi`, null)
AbsPnpApiPath == ProjectRoot \o <<".pnp.js">>

join(a, b) == a \o b

dirname(p) == SubSeq(p, 1, Len(p) - 1)

RECURSIVE CommonLen(_, _)
CommonLen(a, b) ==
  IF a = <<>> \/ b = <<>> \/ a[1] # b[1] THEN 0
  ELSE 1 + CommonLen(Tail(a), Tail(b))

relative(from, to) ==
  LET c == CommonLen(from, to)
  IN  [i \in 1..(Len(from) - c) |-> ".."] \o SubSeq(to, c + 1, Len(to))

(***************************************************************************)
(* TEMPLATE: the text of a generated script is determined by the path to   *)
(* the bootstrap, the module and the three options                         *)
(***************************************************************************)
TemplateOptions == [setupEnv : BOOLEAN, usePnpify : BOOLEAN, wrapModule : BOOLEAN]
DefaultOptions == [setupEnv |-> FALSE, usePnpify |-> FALSE, wrapModule |-> FALSE]

TEMPLATE(relPnpApiPath, module, options) ==
  [kind |-> "script", relPnpApiPath |-> relPnpApiPath, module |-> module,
   setupEnv |-> options.setupEnv, usePnpify |-> options.usePnpify,
   wrapModule |-> options.wrapModule,
   name |-> "", version |-> <<>>, main |-> "", type |-> "", mode |-> "644"]

(***************************************************************************)
(* What the text rendered by TEMPLATE does when node loads it in process   *)
(* state p (the script is a record built by TEMPLATE)                      *)
(***************************************************************************)
NoProc ==
  [alive |-> FALSE, hasSetupEnv |-> FALSE, isUsingPnpify |-> FALSE,
   nodeOptions |-> <<>>, versionsPnp |-> FALSE, startedPnp |-> FALSE,
   setupCalls |-> 0, patchFsCalls |-> 0, appended |-> 0, loads |-> 0,
   envLoads |-> 0,
   last |-> "none"]

\* if (!process.versions.pnp) require(absPnpApiPath).setup();
\* setup() of the bootstrap puts the process under managed resolution
RunSetup(p) ==
  IF ~p.versionsPnp
  THEN [p EXCEPT !.setupCalls = @ + 1, !.versionsPnp = TRUE]
  ELSE p

RunSetupEnv_unguarded(p) ==
  [p EXCEPT !.nodeOptions = Append(@, "pnp"), !.appended = @ + 1]

\* the setupEnv block
RunSetupEnv(p) ==
  IF ~p.hasSetupEnv
  THEN [p EXCEPT !.hasSetupEnv = TRUE,
                 !.nodeOptions = Append(@, "pnp"),
                 !.appended = @ + 1]
  ELSE p

\* the usePnpify block: the marker is defined, then the template literal
\* reads the identifier pnpifyResolution, which the script never declares
PnpifyThrows(p) == ~p.isUsingPnpify

RunPnpify(p) ==
  IF ~p.isUsingPnpify
  THEN [p EXCEPT !.isUsingPnpify = TRUE]
  ELSE p

RunScript_unchecked(p, script, bootstrapExists) ==
  LET p1 == RunSetup(p)
      p2 == IF script.setupEnv THEN RunSetupEnv(p1) ELSE p1
      throws == script.usePnpify /\ PnpifyThrows(p2)
      p3 == IF script.usePnpify THEN RunPnpify(p2) ELSE p2
  IN  [p3 EXCEPT !.loads = @ + 1,
                 !.envLoads = IF script.setupEnv THEN @ + 1 ELSE @,
                 !.last = IF throws THEN "ReferenceError"
                          ELSE IF script.wrapModule THEN "exportedWrapped"
                          ELSE "exported"]

RunScript(p, script, bootstrapExists) ==
  LET p1 == IF bootstrapExists THEN RunSetup(p) ELSE p
      p2 == IF bootstrapExists /\ script.setupEnv THEN RunSetupEnv(p1) ELSE p1
      throws == bootstrapExists /\ script.usePnpify /\ PnpifyThrows(p2)
      p3 == IF bootstrapExists /\ script.usePnpify THEN RunPnpify(p2) ELSE p2
  IN  [p3 EXCEPT !.loads = @ + 1,
                 !.envLoads = IF bootstrapExists /\ script.setupEnv THEN @ + 1 ELSE @,
                 !.last = IF throws THEN "ReferenceError"
                          ELSE IF script.wrapModule THEN "exportedWrapped"
                          ELSE "exported"]

(***************************************************************************)
(* Wrapper                                                                 *)
(***************************************************************************)
SupportedSdk ==
  <<"eslint", "prettier", "typescript-language-server", "typescript",
    "stylelint", "svelte-language-server">>

TargetFolder == join(ProjectRoot, SDK_FOLDER)

\* the manifest of the installed package, read by dynamicRequire
RealManifest(name) == [version |-> "7.1.0", main |-> "lib/index.js"]

NoPaths == [p \in {} |-> <<>>]
NoWrapper == [live |-> FALSE, name |-> "", paths |-> NoPaths]
NewWrapper(name) == [live |-> TRUE, name |-> name, paths |-> NoPaths]

Returned(kind, value) == [kind |-> kind, value |-> value]
AssertionFailed == Returned("AssertionError", <<>>)

\* the record of a call on instance w and of what it returned or threw
Call(name, w, arg, ret) ==
  [call |-> name, self |-> w, arg |-> arg, kind |-> ret.kind, value |-> ret.value]
NoReturn == Call("none", 0, <<>>, Returned("none", <<>>))

\* a path under the output root, relative to it
UnderTarget(abs) == SubSeq(abs, Len(TargetFolder) + 1, Len(abs))

\* xfs.writeFilePromise / writeJsonPromise: an existing file keeps its mode
WriteTo(files, path, content) ==
  LET mode == IF path \in DOMAIN files THEN files[path].mode ELSE "644"
  IN  [q \in DOMAIN files \cup {path} |->
         IF q = path THEN [content EXCEPT !.mode = mode] ELSE files[q]]

\* xfs.chmodPromise(path, 0o755)
Chmod755(files, path) == [files EXCEPT ![path].mode = "755"]

writeManifestThrows_never(self, dependencies) == FALSE

\* writeManifest: throws if the package is not a top-level dependency
writeManifestThrows(self, dependencies) == self.name \notin dependencies

writeManifestFiles(self, files) ==
  WriteTo(files, <<self.name, "package.json">>,
          [kind |-> "manifest", relPnpApiPath |-> <<>>, module |-> <<>>,
           setupEnv |-> FALSE, usePnpify |-> FALSE, wrapModule |-> FALSE,
           name |-> self.name,
           version |-> <<RealManifest(self.name).version, "-pnpify">>,
           main |-> RealManifest(self.name).main,
           type |-> "commonjs", mode |-> "644"])

\* writeFile: the absolute path it writes and returns
writeFileAbs(self, relPackagePath) ==
  join(join(TargetFolder, <<self.name>>), relPackagePath)

writeFileFiles(self, files, relPackagePath, options) ==
  LET absWrapperPath == writeFileAbs(self, relPackagePath)
      relPnpApiPath  == relative(dirname(absWrapperPath), AbsPnpApiPath)
  IN  WriteTo(files, UnderTarget(absWrapperPath),
              TEMPLATE(relPnpApiPath, join(<<self.name>>, relPackagePath), options))

SetPath(paths, key, value) ==
  [q \in DOMAIN paths \cup {key} |-> IF q = key THEN value ELSE paths[q]]

writeFileSelf_unregistered(self, relPackagePath) == self

writeFileSelf(self, relPackagePath) ==
  [self EXCEPT !.paths =
     SetPath(self.paths, relPackagePath,
             relative(ProjectRoot, writeFileAbs(self, relPackagePath)))]

writeBinaryFiles(self, files, relPackagePath, options) ==
  Chmod755(writeFileFiles(self, files, relPackagePath, options),
           UnderTarget(writeFileAbs(self, relPackagePath)))

getProjectPathTo(self, relPackagePath) ==
  IF relPackagePath \notin DOMAIN self.paths
  THEN AssertionFailed
  ELSE Returned("path", self.paths[relPackagePath])

(***************************************************************************)
(* Quiescent values of each group of variables                             *)
(***************************************************************************)
NoShims == [p \in {} |-> 0]

FileIdle ==
  /\ file = NewIntegrationsFile
  /\ found = NoResult
  /\ loadError = NoError
  /\ stage = "none"
  /\ loadArg = NoArg

FsEmpty ==
  /\ outExists = FALSE
  /\ ymlFile = NoFile
  /\ shims = NoShims
  /\ fresh = {}
  /\ legacy = "absent"
  /\ linkTarget = FALSE
  /\ editor = {}
  /\ deps = {}

WrapIdle ==
  /\ wrappers = <<>>
  /\ passed = <<>>
  /\ wres = NoReturn

ProcIdle ==
  /\ procs = <<>>
  /\ bootstrap = FALSE

SdkIdle ==
  /\ pc = "idle"
  /\ requestedIntegrations = <<>>
  /\ preexistingIntegrations = <<>>
  /\ onlyBase = FALSE
  /\ verbose = FALSE
  /\ allIntegrations = <<>>
  /\ sdksIndex = 0
  /\ baseIndex = 0
  /\ skipped = <<>>
  /\ reports = <<>>
  /\ invoked = <<>>
  /\ lastCall = [completed |-> FALSE, aborted |-> FALSE,
                 requested |-> <<>>, preexisting |-> <<>>]
  /\ sameInputs = FALSE
  /\ prevYml = NoFile
  /\ prevShims = NoShims

(***************************************************************************)
(* SpecFile: the operations of one IntegrationsFile instance and find      *)
(***************************************************************************)
IntegrationPath == SDK_FOLDER \o <<INTEGRATIONS_FILE>>

\* what a user may leave at .yarn/sdks/integrations.yml by hand
UserDocs ==
  { EmptyDoc,
    [k \in {"integrations"} |-> ArrayVal(<<"vscode">>)],
    [k \in {"integrations"} |-> StrVal("vscode")],
    [k \in {UnknownKey} |-> StrVal("1.2")],
    [k \in {"integrations", UnknownKey} |->
       IF k = "integrations" THEN ArrayVal(<<"vim", "emacs">>) ELSE StrVal("1.2")] }

UserFiles ==
  {TextFile(FALSE, stringifySyml(d)) : d \in UserDocs} \cup {MalformedFile}

\* new IntegrationsFile()
FileNew ==
  /\ file' = NewIntegrationsFile
  /\ found' = NoResult
  /\ loadError' = NoError
  /\ stage' = "none"
  /\ loadArg' = NoArg
  /\ UNCHANGED <<fsVars, wrapVars, procVars, sdkVars>>

\* file.load(data)
FileLoad(data) ==
  /\ file' = loadState(file, data)
  /\ loadError' = loadThrows(file, data)
  /\ stage' = IF loadError' = NoError THEN "loaded" ELSE "none"
  /\ loadArg' = data
  /\ found' = NoResult
  /\ UNCHANGED <<fsVars, wrapVars, procVars, sdkVars>>

\* file.loadFile(<projectRoot>/.yarn/sdks/integrations.yml)
FileLoadFile ==
  /\ IF ymlFile.present
     THEN /\ file' = loadFileState(file, ymlFile)
          /\ loadError' = loadFileThrows(file, ymlFile, IntegrationPath)
     ELSE /\ file' = file
          /\ loadError' = [kind |-> "ENOENT", detail |-> <<>>, path |-> IntegrationPath]
  /\ stage' = IF loadError' = NoError THEN "loaded" ELSE "none"
  /\ loadArg' = IF ymlFile.present /\ ymlFile.wellFormed
                THEN loadFileData(ymlFile) ELSE NoArg
  /\ found' = NoResult
  /\ UNCHANGED <<outExists, shims, fresh, legacy, linkTarget, editor, deps, wrapVars, procVars, sdkVars>>
  /\ UNCHANGED ymlFile

\* file.persist(<projectRoot>/.yarn/sdks)
FilePersist ==
  /\ ymlFile' = persistContent(file)
  /\ outExists' = TRUE
  /\ stage' = IF stage = "loaded" THEN "persisted" ELSE "none"
  /\ loadArg' = NoArg
  /\ found' = NoResult
  /\ loadError' = NoError
  /\ UNCHANGED <<file, shims, fresh, legacy, linkTarget, editor, deps, wrapVars, procVars, sdkVars>>

\* IntegrationsFile.find(projectRoot)
FileFind ==
  /\ IF ~ymlFile.present
     THEN /\ found' = NoResult
          /\ loadError' = NoError
     ELSE /\ loadError' = loadFileThrows(NewIntegrationsFile, ymlFile, IntegrationPath)
          /\ found' = IF loadError' = NoError
                      THEN Result(loadFileState(NewIntegrationsFile, ymlFile))
                      ELSE NoResult
  /\ stage' = IF stage = "persisted" THEN "reloaded" ELSE "none"
  /\ loadArg' = NoArg
  /\ UNCHANGED <<file, fsVars, wrapVars, procVars, sdkVars>>

\* the user rewrites or deletes integrations.yml by hand
UserEdit(content) ==
  /\ outExists
  /\ ymlFile' = content
  /\ ymlFile' # ymlFile
  /\ stage' = "none"
  /\ loadArg' = NoArg
  /\ found' = NoResult
  /\ loadError' = NoError
  /\ UNCHANGED <<file, outExists, shims, fresh, legacy, linkTarget, editor, deps, wrapVars, procVars, sdkVars>>

InitFile == FileIdle /\ FsEmpty /\ WrapIdle /\ ProcIdle /\ SdkIdle

NextFile ==
  \/ FileNew
  \/ \E data \in LoadInputs : FileLoad(data)
  \/ FileLoadFile
  \/ FilePersist
  \/ FileFind
  \/ \E content \in UserFiles \cup {NoFile} : UserEdit(content)

vars == <<fileVars, fsVars, wrapVars, procVars, sdkVars>>

SpecFile == InitFile /\ [][NextFile]_vars

(***************************************************************************)
(* SpecWrapper: the methods of Wrapper instances over one output folder    *)
(***************************************************************************)
WrapperIds == 1..MaxWrappers

\* instances alternate between two package names, so that from three
\* instances on two of them wrap the same package
WrapperName(w) == IF w % 2 = 1 THEN SupportedSdk[1] ELSE SupportedSdk[4]

WrapperRelPaths == {<<"lib", "api.js">>, <<"package.json">>}

WrapperOptions == {DefaultOptions}

\* new Wrapper(name, {pnpApi, target})
WrapperNew(w) ==
  /\ wrappers' = [wrappers EXCEPT ![w] = NewWrapper(WrapperName(w))]
  /\ passed' = [passed EXCEPT ![w] = {}]
  /\ wres' = NoReturn
  /\ UNCHANGED <<fileVars, fsVars, procVars, sdkVars>>

\* wrappers[w].writeManifest()
WrapperWriteManifest(w) ==
  /\ wrappers[w].live
  /\ IF writeManifestThrows(wrappers[w], deps)
     THEN /\ wres' = Call("writeManifest", w, <<>>, AssertionFailed)
          /\ UNCHANGED <<outExists, shims>>
     ELSE /\ wres' = Call("writeManifest", w, <<>>, Returned("done", <<>>))
          /\ outExists' = TRUE
          /\ shims' = writeManifestFiles(wrappers[w], shims)
  /\ UNCHANGED <<wrappers, passed, fileVars, ymlFile, fresh, legacy, linkTarget, editor, deps, procVars, sdkVars>>

\* wrappers[w].writeFile(relPackagePath, options)
WrapperWriteFile(w, relPackagePath, options) ==
  /\ wrappers[w].live
  /\ shims' = writeFileFiles(wrappers[w], shims, relPackagePath, options)
  /\ outExists' = TRUE
  /\ wrappers' = [wrappers EXCEPT ![w] = writeFileSelf(wrappers[w], relPackagePath)]
  /\ passed' = [passed EXCEPT ![w] = @ \cup {relPackagePath}]
  /\ wres' = Call("writeFile", w, relPackagePath,
                  Returned("path", writeFileAbs(wrappers[w], relPackagePath)))
  /\ UNCHANGED <<fileVars, ymlFile, fresh, legacy, linkTarget, editor, deps, procVars, sdkVars>>

\* wrappers[w].writeBinary(relPackagePath, options)
WrapperWriteBinary(w, relPackagePath, options) ==
  /\ wrappers[w].live
  /\ shims' = writeBinaryFiles(wrappers[w], shims, relPackagePath, options)
  /\ outExists' = TRUE
  /\ wrappers' = [wrappers EXCEPT ![w] = writeFileSelf(wrappers[w], relPackagePath)]
  /\ passed' = [passed EXCEPT ![w] = @ \cup {relPackagePath}]
  /\ wres' = Call("writeBinary", w, relPackagePath, Returned("done", <<>>))
  /\ UNCHANGED <<fileVars, ymlFile, fresh, legacy, linkTarget, editor, deps, procVars, sdkVars>>

\* wrappers[w].getProjectPathTo(relPackagePath)
WrapperGetProjectPathTo(w, relPackagePath) ==
  /\ wrappers[w].live
  /\ wres' = Call("getProjectPathTo", w, relPackagePath,
                  getProjectPathTo(wrappers[w], relPackagePath))
  /\ UNCHANGED <<wrappers, passed, fileVars, fsVars, procVars, sdkVars>>

InitWrapper ==
  /\ FileIdle
  /\ outExists = FALSE
  /\ ymlFile = NoFile
  /\ shims = NoShims
  /\ fresh = {}
  /\ legacy = "absent"
  /\ linkTarget = FALSE
  /\ editor = {}
  /\ deps \in {{}, {SupportedSdk[1]}}
  /\ wrappers = [w \in WrapperIds |-> NoWrapper]
  /\ passed = [w \in WrapperIds |-> {}]
  /\ wres = NoReturn
  /\ ProcIdle
  /\ SdkIdle

NextWrapper ==
  \/ \E w \in WrapperIds : WrapperNew(w)
  \/ \E w \in WrapperIds : WrapperWriteManifest(w)
  \/ \E w \in WrapperIds, p \in WrapperRelPaths, o \in WrapperOptions :
       WrapperWriteFile(w, p, o)
  \/ \E w \in WrapperIds, p \in WrapperRelPaths, o \in WrapperOptions :
       WrapperWriteBinary(w, p, o)
  \/ \E w \in WrapperIds, p \in WrapperRelPaths : WrapperGetProjectPathTo(w, p)

SpecWrapper == InitWrapper /\ [][NextWrapper]_vars

(***************************************************************************)
(* SpecScript: node processes of one process tree load generated scripts   *)
(***************************************************************************)
ProcIds == 1..MaxProcs

ScriptOf(options) == TEMPLATE(<<"..", ".pnp.js">>, <<"eslint", "lib", "api.js">>, options)

\* process p requires a generated script rendered with these options
LoadScript(p, options) ==
  /\ procs[p].alive
  /\ procs[p].loads < MaxLoads
  /\ procs' = [procs EXCEPT ![p] = RunScript(procs[p], ScriptOf(options), bootstrap)]
  /\ UNCHANGED <<bootstrap, fileVars, fsVars, wrapVars, sdkVars>>

\* process p spawns process c: c inherits the environment of p, has fresh
\* globals, and a `-r <bootstrap>` entry of NODE_OPTIONS preloads the bootstrap
Spawn(p, c) ==
  /\ procs[p].alive
  /\ ~procs[c].alive
  /\ \A d \in ProcIds : d < c => procs[d].alive
  /\ procs' = [procs EXCEPT ![c] =
       [NoProc EXCEPT !.alive = TRUE,
                      !.nodeOptions = procs[p].nodeOptions,
                      !.versionsPnp = bootstrap /\ "pnp" \in Range(procs[p].nodeOptions),
                      !.startedPnp = bootstrap /\ "pnp" \in Range(procs[p].nodeOptions)]]
  /\ UNCHANGED <<bootstrap, fileVars, fsVars, wrapVars, sdkVars>>

InitScript ==
  /\ FileIdle
  /\ FsEmpty
  /\ WrapIdle
  /\ SdkIdle
  /\ bootstrap \in BOOLEAN
  /\ \E started \in BOOLEAN :
       procs = [p \in ProcIds |->
                  IF p = 1
                  THEN [NoProc EXCEPT !.alive = TRUE,
                                      !.versionsPnp = started /\ bootstrap,
                                      !.startedPnp = started /\ bootstrap]
                  ELSE NoProc]

NextScript ==
  \/ \E p \in ProcIds, o \in TemplateOptions : LoadScript(p, o)
  \/ \E p, c \in ProcIds : Spawn(p, c)

SpecScript == InitScript /\ [][NextScript]_vars

(***************************************************************************)
(* The SDK registry (sdks/base, sdks/cocvim, sdks/vscode)                  *)
(***************************************************************************)
BASE_SDKS == SubSeq(SupportedSdk, 1, NumSdks)

\* an entry of an integration table: [key, generator]; the key "null" marks
\* the default entry, generator = FALSE a null generator
Entry(key, generator) == [key |-> key, generator |-> generator]
Undefined == Entry("undefined", FALSE)

COC_VIM_SDKS ==
  << Entry("null", FALSE), Entry("eslint", TRUE), Entry("prettier", FALSE),
     Entry("typescript-language-server", FALSE), Entry("typescript", TRUE),
     Entry("stylelint", FALSE), Entry("svelte-language-server", FALSE) >>

VSCODE_SDKS ==
  << Entry("null", TRUE), Entry("eslint", TRUE), Entry("prettier", TRUE),
     Entry("typescript-language-server", FALSE), Entry("typescript", TRUE),
     Entry("stylelint", TRUE), Entry("svelte-language-server", FALSE) >>

SdksOf(integration) == IF integration = "vim" THEN COC_VIM_SDKS ELSE VSCODE_SDKS

\* sdks.find(sdk => sdk[0] === key)
FindSdk(sdks, key) ==
  LET matches == SelectSeq(sdks, LAMBDA e : e.key = key)
  IN  IF matches = <<>> THEN Undefined ELSE matches[1]

\* getDisplayName
getDisplayName(name) ==
  CASE name = "eslint" -> "Eslint"
    [] name = "prettier" -> "Prettier"
    [] name = "typescript-language-server" -> "Typescript Language Server"
    [] name = "typescript" -> "Typescript"
    [] name = "stylelint" -> "Stylelint"
    [] name = "svelte-language-server" -> "Svelte Language Server"
    [] name = "vim" -> "Vim"
    [] name = "vscode" -> "Vscode"
    [] OTHER -> name

\* a base generator: new Wrapper(name), writeManifest, writeBinary, writeFile
BaseBin == <<"bin", "cli.js">>
BaseLib == <<"lib", "api.js">>
BaseWrites == 3

\* the files, the Wrapper and the written paths after the first n writes
BaseFiles(name, files, n) ==
  LET self == NewWrapper(name)
      f1 == IF n >= 1 THEN writeManifestFiles(self, files) ELSE files
      f2 == IF n >= 2 THEN writeBinaryFiles(self, f1, BaseBin, DefaultOptions) ELSE f1
  IN  IF n >= 3
      THEN writeFileFiles(self, f2, BaseLib, [DefaultOptions EXCEPT !.setupEnv = TRUE])
      ELSE f2

BaseWrapper(name, n) ==
  LET self == NewWrapper(name)
      s2 == IF n >= 2 THEN writeFileSelf(self, BaseBin) ELSE self
  IN  IF n >= 3 THEN writeFileSelf(s2, BaseLib) ELSE s2

BaseWritten(name, n) ==
  (IF n >= 1 THEN {<<name, "package.json">>} ELSE {})
  \cup {join(<<name>>, q) : q \in DOMAIN BaseWrapper(name, n).paths}

\* an integration generator records, in the settings of its editor, where
\* the wrapper put the library of the package
Setting(integration, key, value) ==
  [integration |-> integration, key |-> key, value |-> value]

IntegrationSetting(integration, wrapper) ==
  Setting(integration, wrapper.name, getProjectPathTo(wrapper, BaseLib).value)

DefaultSetting(integration) ==
  Setting(integration, "recommendations", <<"arcanis.vscode-zipfs">>)

(***************************************************************************)
(* Spec: generateSdk                                                       *)
(***************************************************************************)
Message(level, msg, subject, count) ==
  [level |-> level, msg |-> msg, subject |-> subject, count |-> count]

Invocation(kind, integration, pkgName) ==
  [kind |-> kind, integration |-> integration, pkgName |-> pkgName]

\* xfs.existsSync follows a symbolic link
ExistsSync(kind, targetExists) ==
  kind = "dir" \/ (kind = "symlink" /\ targetExists)

LegacyIsCleaned_ignoresLink(kind, targetExists) == ExistsSync(kind, targetExists)

LegacyIsCleaned_never(kind, targetExists) == FALSE

\* xfs.existsSync(oldTargetFolder) && !xfs.lstatSync(oldTargetFolder).isSymbolicLink()
LegacyIsCleaned(kind, targetExists) ==
  ExistsSync(kind, targetExists) /\ kind # "symlink"

integrationSdks_baseOnly(all) ==
  IF onlyBase THEN <<>>
  ELSE SelectSeq(SUPPORTED_INTEGRATIONS, LAMBDA i : i \in Range(all))

integrationSdks_unfiltered(all) == SUPPORTED_INTEGRATIONS

\* the tables of the integrations in allIntegrations, in SUPPORTED_INTEGRATIONS order
integrationSdks(all) ==
  SelectSeq(SUPPORTED_INTEGRATIONS, LAMBDA i : i \in Range(all))

IntegrationSets == {s \in SeqsUpTo(Range(SUPPORTED_INTEGRATIONS), 2) : NewSet(s) = s}

union_requestedOnly(requested, preexisting) == NewSet(requested)

\* new Set([...requestedIntegrations, ...preexistingIntegrations])
union(requested, preexisting) == NewSet(requested \o preexisting)

YmlPath == <<INTEGRATIONS_FILE>>

NoLast ==
  [completed |-> FALSE, aborted |-> FALSE, requested |-> <<>>, preexisting |-> <<>>]

LegacyWarning == Message("warning", "legacyCleanup", "", 0)
CleanupWarning == Message("warning", "cleanup", "", 0)

AfterLegacy_keepsTarget(rep, targetExists) == [reports |-> rep, pc |-> "persist"]

\* lines 281-288, up to the first await: where the call suspends next, and
\* what it has reported by then
AfterLegacy(rep, targetExists) ==
  IF targetExists
  THEN [reports |-> Append(rep, CleanupWarning), pc |-> "cleanRemove"]
  ELSE [reports |-> rep, pc |-> "persist"]

\* lines 263-277: the call, up to its first await
SdkStart(requested, preexisting, ob, vb) ==
  /\ pc = "idle"
  /\ requestedIntegrations' = requested
  /\ preexistingIntegrations' = preexisting
  /\ onlyBase' = ob
  /\ verbose' = vb
  /\ allIntegrations' = union(requested, preexisting)
  /\ IF LegacyIsCleaned(legacy, linkTarget)
     THEN /\ reports' = <<LegacyWarning>>
          /\ pc' = "legacyRemove"
     ELSE /\ reports' = AfterLegacy(<<>>, outExists).reports
          /\ pc' = AfterLegacy(<<>>, outExists).pc
  /\ sdksIndex' = 0
  /\ baseIndex' = 0
  /\ skipped' = <<>>
  /\ invoked' = <<>>
  /\ wrappers' = [w \in 1..NumSdks |-> NoWrapper]
  /\ passed' = [w \in 1..NumSdks |-> {}]
  /\ fresh' = {}
  /\ editor' = {}
  /\ sameInputs' = (/\ lastCall.completed
                    /\ requested = lastCall.requested
                    /\ preexisting = lastCall.preexisting)
  /\ prevYml' = IF sameInputs' THEN ymlFile ELSE NoFile
  /\ prevShims' = IF sameInputs' THEN shims ELSE NoShims
  /\ lastCall' = [NoLast EXCEPT !.aborted = lastCall.aborted]
  /\ UNCHANGED <<wres, fileVars, procVars,
                 outExists, ymlFile, shims, legacy, linkTarget, deps>>

runVars == <<requestedIntegrations, preexistingIntegrations, onlyBase, verbose,
             allIntegrations, lastCall, sameInputs, prevYml, prevShims>>

\* line 278: xfs.removePromise(oldTargetFolder) completes
SdkLegacyRemove ==
  /\ pc = "legacyRemove"
  /\ legacy' = "absent"
  /\ reports' = AfterLegacy(reports, outExists).reports
  /\ pc' = AfterLegacy(reports, outExists).pc
  /\ UNCHANGED <<runVars, sdksIndex, baseIndex, skipped, invoked,
                 fileVars, wrapVars, procVars,
                 outExists, ymlFile, shims, fresh, linkTarget, editor, deps>>

removeTarget_keepsPackages(files) == files

\* what xfs.removePromise(targetFolder) leaves of the files under it
removeTarget(files) == NoShims

\* line 283: xfs.removePromise(targetFolder) completes
SdkCleanRemove ==
  /\ pc = "cleanRemove"
  /\ outExists' = FALSE
  /\ ymlFile' = NoFile
  /\ shims' = removeTarget(shims)
  /\ pc' = "persist"
  /\ UNCHANGED <<runVars, sdksIndex, baseIndex, skipped, reports, invoked,
                 fileVars, wrapVars, procVars,
                 fresh, legacy, linkTarget, editor, deps>>

\* lines 286-297: the record is persisted, the tables are filtered and the
\* timed section opens
SdkPersist ==
  /\ pc = "persist"
  /\ ymlFile' = persistContent([NewIntegrationsFile EXCEPT
                                   !.integrations = allIntegrations])
  /\ outExists' = TRUE
  /\ fresh' = fresh \cup {YmlPath}
  /\ reports' = Append(reports, Message("sectionStart", "Generating SDKs", "", 0))
  /\ sdksIndex' = 1
  /\ pc' = "defaults"
  /\ UNCHANGED <<runVars, baseIndex, skipped, invoked,
                 fileVars, wrapVars, procVars,
                 shims, legacy, linkTarget, editor, deps>>

\* lines 300-307: one turn of the loop over the default generators
SdkDefault ==
  /\ pc = "defaults"
  /\ IF sdksIndex > Len(integrationSdks(allIntegrations))
     THEN /\ pc' = "base"
          /\ baseIndex' = 1
          /\ UNCHANGED <<sdksIndex, invoked, editor>>
     ELSE LET integration == integrationSdks(allIntegrations)[sdksIndex]
              defaultSdk  == FindSdk(SdksOf(integration), "null")
          IN  IF defaultSdk = Undefined \/ ~defaultSdk.generator
              THEN /\ sdksIndex' = sdksIndex + 1
                   /\ UNCHANGED <<pc, baseIndex, invoked, editor>>
              ELSE /\ invoked' = Append(invoked, Invocation("default", integration, ""))
                   /\ UNCHANGED baseIndex
                   /\ \E fails \in BOOLEAN :
                        IF fails
                        THEN /\ pc' = "aborted"
                             /\ UNCHANGED <<sdksIndex, editor>>
                        ELSE /\ editor' = editor \cup {DefaultSetting(integration)}
                             /\ sdksIndex' = sdksIndex + 1
                             /\ pc' = pc
  /\ UNCHANGED <<runVars, skipped, reports, fileVars, wrapVars, procVars,
                 outExists, ymlFile, shims, fresh, legacy, linkTarget, deps>>

\* lines 309-315 and 327-329: one turn of the loop over BASE_SDKS, up to the
\* end of its base generator
SdkBase ==
  /\ pc = "base"
  /\ IF baseIndex > Len(BASE_SDKS)
     THEN /\ pc' = "report"
          /\ UNCHANGED <<baseIndex, sdksIndex, skipped, reports, invoked,
                         wrappers, passed, shims, fresh>>
     ELSE LET pkgName == BASE_SDKS[baseIndex]
          IN  IF pkgName \in deps
              THEN /\ reports' = Append(reports,
                                   Message("info", "generated", getDisplayName(pkgName), 0))
                   /\ invoked' = Append(invoked, Invocation("base", "", pkgName))
                   /\ UNCHANGED <<baseIndex, skipped>>
                   /\ \E n \in 0..BaseWrites :
                        LET done == IF writeManifestThrows(NewWrapper(pkgName), deps)
                                    THEN 0 ELSE n
                        IN  /\ shims' = BaseFiles(pkgName, shims, done)
                            /\ fresh' = fresh \cup BaseWritten(pkgName, done)
                            /\ wrappers' = [wrappers EXCEPT ![baseIndex] =
                                              BaseWrapper(pkgName, done)]
                            /\ passed' = [passed EXCEPT ![baseIndex] =
                                            DOMAIN BaseWrapper(pkgName, done).paths]
                            /\ IF done < BaseWrites
                               THEN /\ pc' = "aborted"
                                    /\ UNCHANGED sdksIndex
                               ELSE /\ pc' = "integrations"
                                    /\ sdksIndex' = 1
              ELSE /\ skipped' = Append(skipped, getDisplayName(pkgName))
                   /\ baseIndex' = baseIndex + 1
                   /\ UNCHANGED <<pc, sdksIndex, reports, invoked,
                                  wrappers, passed, shims, fresh>>
  /\ UNCHANGED <<runVars, wres, fileVars, procVars,
                 outExists, ymlFile, legacy, linkTarget, editor, deps>>

\* lines 316-326: one turn of the loop over the integration tables, for the
\* wrapper the base generator returned
SdkIntegration ==
  /\ pc = "integrations"
  /\ IF sdksIndex > Len(integrationSdks(allIntegrations))
     THEN /\ pc' = "base"
          /\ baseIndex' = baseIndex + 1
          /\ UNCHANGED <<sdksIndex, invoked, editor>>
     ELSE LET integration == integrationSdks(allIntegrations)[sdksIndex]
              sdk == FindSdk(SdksOf(integration), BASE_SDKS[baseIndex])
          IN  IF sdk = Undefined \/ ~sdk.generator
              THEN /\ sdksIndex' = sdksIndex + 1
                   /\ UNCHANGED <<pc, baseIndex, invoked, editor>>
              ELSE /\ invoked' = Append(invoked,
                                   Invocation("integration", integration, BASE_SDKS[baseIndex]))
                   /\ UNCHANGED baseIndex
                   /\ \E fails \in BOOLEAN :
                        IF fails \/ getProjectPathTo(wrappers[baseIndex], BaseLib) = AssertionFailed
                        THEN /\ pc' = "aborted"
                             /\ UNCHANGED <<sdksIndex, editor>>
                        ELSE /\ editor' = editor \cup
                                  {IntegrationSetting(integration, wrappers[baseIndex])}
                             /\ sdksIndex' = sdksIndex + 1
                             /\ pc' = pc
  /\ UNCHANGED <<runVars, skipped, reports, fileVars, wrapVars, procVars,
                 outExists, ymlFile, shims, fresh, legacy, linkTarget, deps>>

\* lines 332-340: the skipped report
skippedReport_alwaysCount(names, isVerbose) ==
  IF Len(names) = 0 THEN <<>>
  ELSE <<Message("warning", "skippedCount", "", Len(names))>>

skippedReport(names, isVerbose) ==
  IF Len(names) = 0 THEN <<>>
  ELSE IF isVerbose
       THEN [i \in 1..Len(names) |-> Message("warning", "skipped", names[i], 0)]
       ELSE <<Message("warning", "skippedCount", "", Len(names))>>

\* lines 332-341: the report of the skipped SDKs; the timed section closes
SdkReport ==
  /\ pc = "report"
  /\ reports' = (reports \o skippedReport(skipped, verbose))
                  \o <<Message("sectionEnd", "Generating SDKs", "", 0)>>
  /\ pc' = "settings"
  /\ UNCHANGED <<runVars, sdksIndex, baseIndex, skipped, invoked,
                 fileVars, fsVars, wrapVars, procVars>>

settingsReport_newIfRequested(all, preexisting) ==
  [i \in 1..Len(all) |->
     Message("info",
             IF all[i] \in Range(preexisting) /\ all[i] \notin Range(requestedIntegrations)
             THEN "updated" ELSE "new",
             getDisplayName(all[i]), 0)]

\* lines 345-351
settingsReport(all, preexisting) ==
  [i \in 1..Len(all) |->
     Message("info", IF all[i] \in Range(preexisting) THEN "updated" ELSE "new",
             getDisplayName(all[i]), 0)]

\* lines 343-353
SdkSettings ==
  /\ pc = "settings"
  /\ reports' =
       IF Len(allIntegrations) > 0
       THEN (Append(reports, Message("sectionStart", "Generating settings", "", 0))
               \o settingsReport(allIntegrations, preexistingIntegrations))
              \o <<Message("sectionEnd", "Generating settings", "", 0)>>
       ELSE reports
  /\ pc' = "done"
  /\ UNCHANGED <<runVars, sdksIndex, baseIndex, skipped, invoked,
                 fileVars, fsVars, wrapVars, procVars>>

\* the promise generateSdk returned settles, and its locals are gone
SdkReturn ==
  /\ pc \in {"done", "aborted"}
  /\ lastCall' = IF pc = "done"
                 THEN [completed |-> TRUE, aborted |-> FALSE,
                       requested |-> requestedIntegrations,
                       preexisting |-> preexistingIntegrations]
                 ELSE [NoLast EXCEPT !.aborted = TRUE]
  /\ pc' = "idle"
  /\ requestedIntegrations' = <<>>
  /\ preexistingIntegrations' = <<>>
  /\ onlyBase' = FALSE
  /\ verbose' = FALSE
  /\ allIntegrations' = <<>>
  /\ sdksIndex' = 0
  /\ baseIndex' = 0
  /\ skipped' = <<>>
  /\ reports' = <<>>
  /\ invoked' = <<>>
  /\ sameInputs' = FALSE
  /\ prevYml' = NoFile
  /\ prevShims' = NoShims
  /\ wrappers' = [w \in 1..NumSdks |-> NoWrapper]
  /\ passed' = [w \in 1..NumSdks |-> {}]
  /\ fresh' = {}
  /\ editor' = {}
  /\ UNCHANGED <<wres, fileVars, procVars,
                 outExists, ymlFile, shims, legacy, linkTarget, deps>>

\* between two calls, the user adds or removes a top-level dependency
EnvToggleDependency(pkgName) ==
  /\ pc = "idle"
  /\ deps' = IF pkgName \in deps THEN deps \ {pkgName} ELSE deps \cup {pkgName}
  /\ lastCall' = [NoLast EXCEPT !.aborted = lastCall.aborted]
  /\ UNCHANGED <<pc, requestedIntegrations, preexistingIntegrations, onlyBase, verbose,
                 allIntegrations, sameInputs, prevYml, prevShims,
                 sdksIndex, baseIndex, skipped, reports, invoked,
                 fileVars, wrapVars, procVars,
                 outExists, ymlFile, shims, fresh, legacy, linkTarget, editor>>

\* between two calls, something is put at the legacy location
EnvLegacy(kind, targetExists) ==
  /\ pc = "idle"
  /\ legacy = "absent"
  /\ legacy' = kind
  /\ linkTarget' = (kind = "symlink" /\ targetExists)
  /\ UNCHANGED <<sdkVars, fileVars, wrapVars, procVars,
                 outExists, ymlFile, shims, fresh, editor, deps>>

\* what an earlier version may have left under the output root
StaleShims ==
  BaseFiles(SupportedSdk[1], BaseFiles(SupportedSdk[4], NoShims, BaseWrites), 1)

StaleYml ==
  persistContent([NewIntegrationsFile EXCEPT !.integrations = <<"vscode", "vim">>])

Init ==
  /\ FileIdle
  /\ ProcIdle
  /\ SdkIdle
  /\ wrappers = [w \in 1..NumSdks |-> NoWrapper]
  /\ passed = [w \in 1..NumSdks |-> {}]
  /\ wres = NoReturn
  /\ \E stale \in {"absent", "empty", "stale"} :
       /\ outExists = (stale # "absent")
       /\ ymlFile = IF stale = "stale" THEN StaleYml ELSE NoFile
       /\ shims = IF stale = "stale" THEN StaleShims ELSE NoShims
  /\ fresh = {}
  /\ legacy \in {"absent", "dir", "symlink"}
  /\ linkTarget \in BOOLEAN
  /\ legacy # "symlink" => ~linkTarget
  /\ editor = {}
  /\ deps \in SUBSET Range(BASE_SDKS)

Next ==
  \/ \E requested, preexisting \in IntegrationSets, ob, vb \in BOOLEAN :
       SdkStart(requested, preexisting, ob, vb)
  \/ SdkLegacyRemove
  \/ SdkCleanRemove
  \/ SdkPersist
  \/ SdkDefault
  \/ SdkBase
  \/ SdkIntegration
  \/ SdkReport
  \/ SdkSettings
  \/ SdkReturn
  \/ \E pkgName \in Range(BASE_SDKS) : EnvToggleDependency(pkgName)
  \/ \E kind \in {"dir", "symlink"}, targetExists \in BOOLEAN : EnvLegacy(kind, targetExists)

Spec == Init /\ [][Next]_vars

(***************************************************************************)
(* Properties of IntegrationsFile (SpecFile)                               *)
(***************************************************************************)
Supported == Range(SUPPORTED_INTEGRATIONS)

\* the identifiers the document of a file lists under `integrations`
Listed(content) ==
  LET doc == parseSyml(content.lines)
  IN  IF IsArray(doc, "integrations") THEN Range(doc["integrations"].items) ELSE {}

\* C1: for every sequence S of supported identifiers (the empty one
\* included), once load({integrations: S}) has been applied, the instance
\* persisted and the file reloaded through find, find returns an instance
\* whose integrations are exactly the members of S.
C1_RoundTrip ==
  (/\ stage = "reloaded"
   /\ IsArray(file.raw, "integrations")
   /\ Range(file.raw["integrations"].items) \subseteq Supported)
  => (/\ loadError = NoError
      /\ found.present
      /\ Range(found.integrations) = Range(file.raw["integrations"].items))

C1_Witness ==
  /\ stage = "reloaded"
  /\ IsArray(file.raw, "integrations")
  /\ file.raw["integrations"].items = <<"vscode", "vim">>
  /\ found.present
  /\ Len(found.integrations) = 2

\* C2: every top-level key other than `integrations` of a document loaded
\* into an IntegrationsFile is still there, with the same value, in the
\* document a subsequent persist writes.
C2_UnknownKeysSurvive ==
  (/\ stage = "persisted"
   /\ UnknownKey \in DOMAIN file.raw)
  => (/\ ymlFile.present
      /\ UnknownKey \in DOMAIN parseSyml(ymlFile.lines)
      /\ parseSyml(ymlFile.lines)[UnknownKey] = file.raw[UnknownKey])

\* C3: load throws a usage error exactly when the `integrations` sequence
\* holds an identifier outside {vim, vscode}; the error then names every
\* unsupported identifier of the input and no supported one; with only
\* supported identifiers load does not throw.
C3_UnsupportedAllNamed ==
  (loadArg.type = "object" /\ IsArray(loadArg.doc, "integrations"))
  => LET items == Range(loadArg.doc["integrations"].items)
     IN  IF items \subseteq Supported
         THEN loadError = NoError
         ELSE /\ loadError.kind = "UsageError"
              /\ Range(loadError.detail) = items \ Supported

C3_Witness ==
  /\ loadArg.type = "object"
  /\ IsArray(loadArg.doc, "integrations")
  /\ Range(loadArg.doc["integrations"].items) = {"emacs", "atom"}
  /\ loadError.kind = "UsageError"
  /\ Len(loadError.detail) = 2

(***************************************************************************)
(* Properties of generateSdk (Spec)                                        *)
(***************************************************************************)
AfterCleanup ==
  {"persist", "defaults", "base", "integrations", "report", "settings", "done", "aborted"}

Generating == AfterCleanup \ {"persist"}

\* C4: a completed call that repeats the previous completed call (same
\* requested and preexisting integrations, dependency set unchanged) leaves
\* the output directory exactly as that previous call left it; and when a
\* call has ended, the legacy folder is not there as a real folder.
C4_Idempotent ==
  /\ (pc = "done" /\ sameInputs)
       => (outExists /\ ymlFile = prevYml /\ shims = prevShims)
  /\ pc \in {"done", "aborted"} => legacy # "dir"

C4_Witness ==
  /\ pc = "done"
  /\ sameInputs
  /\ LegacyWarning \in Range(reports)
  /\ Len(allIntegrations) = 2
  /\ deps = Range(BASE_SDKS)
  /\ shims = prevShims
  /\ shims # NoShims

\* the files under the output root
OutputPaths == DOMAIN shims \cup (IF ymlFile.present THEN {YmlPath} ELSE {})

\* C5: once a call has cleaned the output root, and until it ends (normally
\* or by a failing generator), every file under the output root was written
\* by that call; the output root never holds a file of an earlier call next
\* to a file of the current one.
C5_NoStaleOutput ==
  (pc \in AfterCleanup \/ fresh # {}) => OutputPaths \subseteq fresh

C5_Witness ==
  /\ pc = "aborted"
  /\ CleanupWarning \in Range(reports)
  /\ Cardinality(DOMAIN shims) = BaseWrites + 1
  /\ OutputPaths \subseteq fresh

\* C6: when the first generator is invoked, and from then on to the end of
\* the call (a failing generator included), integrations.yml exists under
\* the output root and lists exactly the requested and the preexisting
\* integrations.
C6_RecordBeforeGenerators ==
  (pc \in Generating \/ invoked # <<>>)
  => (/\ outExists
      /\ ymlFile.present
      /\ Listed(ymlFile) = Range(requestedIntegrations) \cup Range(preexistingIntegrations))

C6_Witness ==
  /\ pc = "aborted"
  /\ Len(invoked) = 1
  /\ requestedIntegrations = <<"vim">>
  /\ preexistingIntegrations = <<"vscode">>
  /\ Listed(ymlFile) = {"vim", "vscode"}

BaseInvocations(pkgName) ==
  {i \in 1..Len(invoked) : invoked[i].kind = "base" /\ invoked[i].pkgName = pkgName}

Invocations(pkgName) == {i \in 1..Len(invoked) : invoked[i].pkgName = pkgName}

NamedSkipped(pkgName) ==
  \E r \in Range(reports) : r.msg = "skipped" /\ r.subject = getDisplayName(pkgName)

Absent == {pkgName \in Range(BASE_SDKS) : pkgName \notin deps}

\* no generator of the package has run and the output root has no folder for it
Untouched(pkgName) ==
  /\ Invocations(pkgName) = {}
  /\ \A path \in fresh : path[1] # pkgName
  /\ pc \in AfterCleanup => \A path \in DOMAIN shims : path[1] # pkgName

\* C7 as stated: for every registered package absent from the dependency
\* set, no generator of it is invoked, no folder is created for it and it
\* appears in the skipped report; for every registered package present, its
\* base generator is invoked exactly once and it is not reported skipped.
C7_SkippedNamed ==
  pc = "done" =>
    \A pkgName \in Range(BASE_SDKS) :
      IF pkgName \notin deps
      THEN Untouched(pkgName) /\ NamedSkipped(pkgName)
      ELSE Cardinality(BaseInvocations(pkgName)) = 1 /\ ~NamedSkipped(pkgName)

\* C7, amended: for every registered package absent from the dependency set,
\* no generator of it is ever invoked and no folder is created for it, and
\* once the skipped report is out it names the package (by its display
\* name) when verbose, and otherwise only gives the number of skipped
\* packages, which counts it; for every registered package present, a call
\* that got through the loop has invoked its base generator exactly once
\* (never more), and it is neither named nor counted as skipped.
C7_SkippedReported ==
  \A pkgName \in Range(BASE_SDKS) :
    IF pkgName \notin deps
    THEN /\ pc # "idle" => Untouched(pkgName)
         /\ pc \in {"settings", "done"} =>
              /\ getDisplayName(pkgName) \in Range(skipped)
              /\ verbose => NamedSkipped(pkgName)
              /\ ~verbose =>
                   /\ ~NamedSkipped(pkgName)
                   /\ Message("warning", "skippedCount", "", Cardinality(Absent))
                        \in Range(reports)
    ELSE /\ Cardinality(BaseInvocations(pkgName)) <= 1
         /\ pc \in {"report", "settings", "done"} =>
              Cardinality(BaseInvocations(pkgName)) = 1
         /\ getDisplayName(pkgName) \notin Range(skipped)
         /\ ~NamedSkipped(pkgName)
         /\ pc \in {"settings", "done"} /\ ~verbose /\ Absent # {} =>
              Message("warning", "skippedCount", "", Cardinality(Absent))
                \in Range(reports)

C7_Witness ==
  /\ pc = "done"
  /\ ~verbose
  /\ deps = {BASE_SDKS[1]}
  /\ Len(allIntegrations) = 2
  /\ Message("warning", "skippedCount", "", NumSdks - 1) \in Range(reports)
  /\ Cardinality(BaseInvocations(BASE_SDKS[1])) = 1

\* C8: a call that finds a real folder at the legacy location reports the
\* legacy warning and then removes the folder; a call that finds a symbolic
\* link there reports no legacy warning, and neither the link nor what it
\* points to is ever removed or changed.
C8_LegacyMigration ==
  [][ /\ (pc = "idle" /\ pc' # "idle") =>
           IF legacy = "dir"
           THEN reports' = <<LegacyWarning>> /\ pc' = "legacyRemove" /\ legacy' = "dir"
           ELSE LegacyWarning \notin Range(reports') /\ pc' # "legacyRemove"
      /\ pc = "legacyRemove" =>
           /\ LegacyWarning \in Range(reports)
           /\ legacy = "dir"
           /\ legacy' = "absent"
      /\ (pc # "idle" /\ pc # "legacyRemove") =>
           /\ legacy' = legacy
           /\ Len(SelectSeq(reports', LAMBDA r : r = LegacyWarning))
                = Len(SelectSeq(reports, LAMBDA r : r = LegacyWarning))
                \/ pc' = "idle"
      /\ legacy = "symlink" => (legacy' = "symlink" /\ linkTarget' = linkTarget)
    ]_vars

C8_Witness ==
  /\ pc = "done"
  /\ legacy = "absent"
  /\ reports[1] = LegacyWarning
  /\ Len(SelectSeq(reports, LAMBDA r : r = LegacyWarning)) = 1

(***************************************************************************)
(* Properties of Wrapper (SpecWrapper)                                     *)
(***************************************************************************)
\* C9: getProjectPathTo(p) on an instance throws an assertion error for
\* every p that was never handed to writeFile or writeBinary of that very
\* instance (what another instance or writeManifest wrote does not count);
\* for every p that was, it returns the path of <target>/<name>/p relative
\* to the project root; it never changes the recorded mapping.
C9_GetProjectPathTo ==
  [][ wres'.call = "getProjectPathTo" =>
        /\ wrappers' = wrappers
        /\ passed' = passed
        /\ shims' = shims
        /\ IF wres'.arg \in passed[wres'.self]
           THEN /\ wres'.kind = "path"
                /\ wres'.value =
                     (SDK_FOLDER \o <<wrappers[wres'.self].name>>) \o wres'.arg
           ELSE wres'.kind = "AssertionError"
    ]_vars

C9_Witness ==
  /\ wres.call = "getProjectPathTo"
  /\ wres.kind = "AssertionError"
  /\ wres.arg = <<"package.json">>
  /\ <<wrappers[wres.self].name, "package.json">> \in DOMAIN shims
  /\ \E w \in DOMAIN passed : w # wres.self /\ wres.arg \in passed[w]
  /\ passed[wres.self] # {}

(***************************************************************************)
(* Properties of the generated scripts (SpecScript)                        *)
(***************************************************************************)
Preloads(p) == Len(SelectSeq(procs[p].nodeOptions, LAMBDA e : e = "pnp"))

\* C10 as stated: however many generated scripts the processes of a process
\* tree load, NODE_OPTIONS holds the preload entry of the bootstrap at most
\* once.
C10_OncePerTree ==
  \A p \in DOMAIN procs : Preloads(p) <= 1

\* C10, amended: however many generated scripts one process loads, that
\* process appends the preload entry of the bootstrap to NODE_OPTIONS at
\* most once, and exactly once if it loaded a script rendered with
\* setupEnv=true while the bootstrap exists; a spawned process, whose global
\* namespace is fresh, appends it again to the value it inherited.
C10_OncePerProcess ==
  \A p \in DOMAIN procs :
    /\ procs[p].appended <= 1
    /\ procs[p].envLoads > 0 => procs[p].appended = 1
    /\ procs[p].envLoads = 0 => procs[p].appended = 0

C10_Witness ==
  \E p \in DOMAIN procs :
    /\ procs[p].envLoads = MaxLoads
    /\ procs[p].appended = 1
    /\ Preloads(p) = 2

\* what a load leaves of a process when it had no effect but the export
OnlyExported(p, result) == [p EXCEPT !.loads = @ + 1, !.last = result]

\* C11: for every combination of setupEnv, usePnpify and wrapModule, a load
\* while the bootstrap file does not exist calls no setup, leaves
\* NODE_OPTIONS and both global markers as they were and calls no patchFs:
\* it ends by exporting the real module (through moduleWrapper when
\* wrapModule is given); a load while the bootstrap exists calls setup
\* exactly when process.versions.pnp is unset, so a process started under
\* managed resolution never calls it.
C11_BootstrapGate ==
  [][ \A p \in ProcIds :
        procs'[p].loads = procs[p].loads + 1 =>
          /\ ~bootstrap =>
               /\ procs'[p].last \in {"exported", "exportedWrapped"}
               /\ procs'[p] = OnlyExported(procs[p], procs'[p].last)
          /\ bootstrap =>
               procs'[p].setupCalls =
                 procs[p].setupCalls + (IF procs[p].versionsPnp THEN 0 ELSE 1)
          /\ procs'[p].startedPnp => procs'[p].setupCalls = 0
    ]_vars

C11_Witness ==
  /\ ~bootstrap
  /\ \E p \in DOMAIN procs :
       /\ procs[p].loads = MaxLoads
       /\ procs[p].last = "exportedWrapped"
       /\ procs[p].setupCalls = 0
       /\ procs[p].nodeOptions = <<>>
       /\ ~procs[p].hasSetupEnv
       /\ ~procs[p].isUsingPnpify

(***************************************************************************)
(* Properties of exportTo / persist (SpecFile, and the persist of Spec)    *)
(***************************************************************************)
\* C12: the document persist writes has an `integrations` key exactly when
\* the integrations of the instance are not empty, and the key then lists
\* the members of the set, each once; the instance is `file`, or, inside
\* generateSdk, the one that holds allIntegrations, so that a call with
\* empty requested and preexisting sets writes the file without the key.
C12_KeyIffNonEmpty ==
  [][ (FilePersist \/ SdkPersist) =>
        LET integrations == IF pc = "persist" THEN allIntegrations ELSE file.integrations
            doc == parseSyml(ymlFile'.lines)
        IN  /\ ymlFile'.present
            /\ ("integrations" \in DOMAIN doc) <=> (integrations # <<>>)
            /\ integrations # <<>> =>
                 /\ doc["integrations"].kind = "seq"
                 /\ Range(doc["integrations"].items) = Range(integrations)
                 /\ Len(doc["integrations"].items) = Cardinality(Range(integrations))
    ]_vars

C12_Witness ==
  /\ stage = "persisted"
  /\ IsArray(file.raw, "integrations")
  /\ file.raw["integrations"].items = <<>>
  /\ file.integrations = <<>>
  /\ ymlFile.present
  /\ ymlFile.banner
  /\ "integrations" \notin DOMAIN parseSyml(ymlFile.lines)

\* C13: after any sequence of loads, failed ones included, the
\* integrations of the instance are all supported identifiers; and a load
\* (or loadFile) that throws leaves `integrations` and `raw` as they were.
C13_OnlySupported ==
  [][ /\ Range(file'.integrations) \subseteq Supported
      /\ ((\E data \in LoadInputs : FileLoad(data)) \/ FileLoadFile) =>
           (loadError' # NoError => file' = file)
    ]_vars

(***************************************************************************)
(* Properties of the generator invocations of generateSdk (Spec)           *)
(***************************************************************************)
\* the integrations this call was handed, in SUPPORTED_INTEGRATIONS order
Enabled ==
  SelectSeq(SUPPORTED_INTEGRATIONS,
            LAMBDA i : i \in Range(requestedIntegrations) \cup Range(preexistingIntegrations))

PosIn(seq, x) == CHOOSE i \in 1..Len(seq) : seq[i] = x

\* the table of the integration has a generator under this key
HasGenerator(integration, key) == FindSdk(SdksOf(integration), key).generator

Occurrences(invocation) == {j \in 1..Len(invoked) : invoked[j] = invocation}

\* the generator of invocation j has run to its end: a default generator
\* has left its setting, a base generator its three files and its Wrapper,
\* an integration generator the setting that points into the folder of the
\* Wrapper it was handed
Completed(j) ==
  LET g == invoked[j]
  IN  CASE g.kind = "default" -> DefaultSetting(g.integration) \in editor
        [] g.kind = "base" ->
             /\ BaseWritten(g.pkgName, BaseWrites) \subseteq DOMAIN shims
             /\ wrappers[PosIn(BASE_SDKS, g.pkgName)] = BaseWrapper(g.pkgName, BaseWrites)
        [] OTHER ->
             Setting(g.integration, g.pkgName, (SDK_FOLDER \o <<g.pkgName>>) \o BaseLib)
               \in editor

\* C14: in one call, no default generator is invoked after a base or an
\* integration generator, and every default generator of an enabled
\* integration has been invoked once when the loop over BASE_SDKS starts;
\* base generators are invoked in BASE_SDKS order; an integration generator
\* keyed by P is invoked after the base generator of P with no other base
\* generator in between, and works on the Wrapper of P; the integration
\* generators of one package are invoked in SUPPORTED_INTEGRATIONS order,
\* each once when the loop is over; no generator of an integration outside
\* requested \cup preexisting is invoked; and when a generator is invoked,
\* every generator invoked before it has run to its end.
C14_GeneratorOrder ==
  pc # "idle" =>
    /\ \A i, j \in 1..Len(invoked) :
         i < j =>
           /\ invoked[j].kind = "default" => invoked[i].kind = "default"
           /\ (invoked[i].kind = "base" /\ invoked[j].kind = "base") =>
                PosIn(BASE_SDKS, invoked[i].pkgName) < PosIn(BASE_SDKS, invoked[j].pkgName)
           /\ (/\ invoked[i].kind = "integration"
               /\ invoked[j].kind = "integration"
               /\ invoked[i].pkgName = invoked[j].pkgName) =>
                PosIn(SUPPORTED_INTEGRATIONS, invoked[i].integration)
                  < PosIn(SUPPORTED_INTEGRATIONS, invoked[j].integration)
    /\ \A j \in 1..Len(invoked) :
         /\ invoked[j].kind = "integration" =>
              \E b \in 1..(j - 1) :
                /\ invoked[b] = Invocation("base", "", invoked[j].pkgName)
                /\ \A m \in (b + 1)..(j - 1) : invoked[m].kind = "integration"
         /\ invoked[j].kind # "base" => invoked[j].integration \in Range(Enabled)
         /\ (j < Len(invoked) \/ pc # "aborted") => Completed(j)
    /\ pc \in {"base", "integrations", "report", "settings", "done"} =>
         \A i \in Range(SUPPORTED_INTEGRATIONS) :
           Cardinality(Occurrences(Invocation("default", i, "")))
             = IF i \in Range(Enabled) /\ HasGenerator(i, "null") THEN 1 ELSE 0
    /\ pc \in {"report", "settings", "done"} =>
         \A i \in Range(SUPPORTED_INTEGRATIONS), pkgName \in Range(BASE_SDKS) :
           Cardinality(Occurrences(Invocation("integration", i, pkgName)))
             = IF i \in Range(Enabled) /\ pkgName \in deps /\ HasGenerator(i, pkgName)
               THEN 1 ELSE 0

C14_Witness ==
  /\ pc = "done"
  /\ deps = Range(BASE_SDKS)
  /\ requestedIntegrations = <<"vscode">>
  /\ preexistingIntegrations = <<"vim">>
  /\ invoked[1] = Invocation("default", "vscode", "")
  /\ invoked[2] = Invocation("base", "", BASE_SDKS[1])
  /\ invoked[3] = Invocation("integration", "vim", BASE_SDKS[1])
  /\ invoked[4] = Invocation("integration", "vscode", BASE_SDKS[1])
  /\ invoked[5] = Invocation("base", "", BASE_SDKS[2])

(***************************************************************************)
(* Properties of a failing generator (Spec)                                *)
(***************************************************************************)
\* what a call whose generators all succeed writes under an output root
\* that did not exist: the shims of the first k packages of BASE_SDKS
RECURSIVE ScratchShims(_)
ScratchShims(k) ==
  IF k = 0 THEN NoShims
  ELSE IF BASE_SDKS[k] \in deps
       THEN BaseFiles(BASE_SDKS[k], ScratchShims(k - 1), BaseWrites)
       ELSE ScratchShims(k - 1)

ScratchYml(requested, preexisting) ==
  persistContent([NewIntegrationsFile EXCEPT
                    !.integrations = NewSet(requested \o preexisting)])

SkipOrSettings(r) ==
  r.msg \in {"skipped", "skippedCount", "Generating settings", "updated", "new"}

\* C15: the step at which a generator fails ends the call: the failing
\* generator is the last one invoked, the files written so far stay as they
\* are, the call returns without a skipped report and without a
\* `Generating settings` section, and no generator was invoked twice; and a
\* call that follows an aborted one and completes leaves the output
\* directory that the same call leaves when it starts without an output
\* root.
C15_FailureAborts ==
  [][ /\ (pc # "aborted" /\ pc' = "aborted") =>
           /\ Len(invoked') = Len(invoked) + 1
           /\ SubSeq(invoked', 1, Len(invoked)) = invoked
           /\ \A path \in DOMAIN shims : path \in DOMAIN shims' /\ shims'[path] = shims[path]
           /\ ymlFile' = ymlFile
           /\ outExists'
           /\ reports' = reports \/ reports' = Append(reports, reports'[Len(reports')])
      /\ pc' = "aborted" =>
           /\ \A r \in Range(reports') : ~SkipOrSettings(r)
           /\ \A i, j \in 1..Len(invoked') : invoked'[i] = invoked'[j] => i = j
      /\ pc = "aborted" =>
           /\ pc' = "idle"
           /\ shims' = shims
           /\ ymlFile' = ymlFile
           /\ outExists' = outExists
           /\ lastCall'.aborted
      /\ (pc' = "done" /\ lastCall'.aborted) =>
           /\ outExists'
           /\ shims' = ScratchShims(Len(BASE_SDKS))
           /\ ymlFile' = ScratchYml(requestedIntegrations', preexistingIntegrations')
    ]_vars

C15_Witness ==
  /\ pc = "done"
  /\ lastCall.aborted
  /\ CleanupWarning \in Range(reports)
  /\ deps = Range(BASE_SDKS)
  /\ Len(allIntegrations) = 2
  /\ shims = ScratchShims(Len(BASE_SDKS))
  /\ Cardinality(DOMAIN shims) = BaseWrites * Len(BASE_SDKS)

(***************************************************************************)
(* Properties of the settings section (Spec)                               *)
(***************************************************************************)
SettingsStart == Message("sectionStart", "Generating settings", "", 0)
SdksEnd == Message("sectionEnd", "Generating SDKs", "", 0)

Positions(r) == {j \in 1..Len(reports) : reports[j] = r}

\* the lines reported about an integration inside the settings section
SettingsLines(integration) ==
  {j \in 1..Len(reports) :
     /\ reports[j].msg \in {"updated", "new"}
     /\ reports[j].subject = getDisplayName(integration)}

\* C16: a call that got through the generation section reports, when
\* requested \cup preexisting is not empty, one line per integration of the
\* union inside a `Generating settings` section: `updated` when the
\* integration is in the preexisting set (requested as well or not), `new`
\* otherwise; with an empty union no such section is started; the section
\* never starts before the `Generating SDKs` section has ended.
C16_SettingsReport ==
  /\ pc = "done" =>
       LET all == Range(requestedIntegrations) \cup Range(preexistingIntegrations)
       IN  /\ Cardinality(Positions(SettingsStart)) = IF all = {} THEN 0 ELSE 1
           /\ \A i \in Range(SUPPORTED_INTEGRATIONS) :
                /\ Cardinality(SettingsLines(i)) = IF i \in all THEN 1 ELSE 0
                /\ \A j \in SettingsLines(i) :
                     /\ reports[j].level = "info"
                     /\ reports[j].msg =
                          IF i \in Range(preexistingIntegrations) THEN "updated" ELSE "new"
                     /\ \E b \in Positions(SettingsStart) : b < j
  /\ \A j \in Positions(SettingsStart) : \E e \in Positions(SdksEnd) : e < j
  /\ pc \notin {"done", "idle"} => Positions(SettingsStart) = {}

C16_Witness ==
  /\ pc = "done"
  /\ requestedIntegrations = <<"vscode", "vim">>
  /\ preexistingIntegrations = <<"vscode">>
  /\ Message("info", "updated", getDisplayName("vscode"), 0) \in Range(reports)
  /\ Message("info", "new", getDisplayName("vim"), 0) \in Range(reports)

(***************************************************************************)
(* Properties of the usePnpify block of the generated scripts (SpecScript) *)
(***************************************************************************)
PnpifyPreloads(p) == Len(SelectSeq(procs[p].nodeOptions, LAMBDA e : e = "pnpify"))

\* C17: a process that has loaded a script rendered with usePnpify=true
\* while the bootstrap exists (its pnpify marker is then defined) has
\* appended the second preload entry to NODE_OPTIONS once and called patchFs
\* exactly once, however many scripts it loaded, and that load ended by
\* exporting the real module.
C17_PnpifyPatchesOnce ==
  \A p \in DOMAIN procs :
    /\ procs[p].patchFsCalls <= 1
    /\ procs[p].last # "ReferenceError"
    /\ procs[p].isUsingPnpify =>
         /\ procs[p].patchFsCalls = 1
         /\ PnpifyPreloads(p) = 1

(***************************************************************************)
(* Properties of Wrapper.writeManifest (SpecWrapper)                       *)
(***************************************************************************)
ManifestPath(name) == <<name, "package.json">>

\* C18: writeManifest of a Wrapper whose package is not a top-level
\* dependency throws an assertion error and changes nothing on the
\* filesystem (no folder, no package.json); otherwise it writes
\* <target>/<name>/package.json with name = the name of the wrapper,
\* version = the real version followed by `-pnpify`, main = the real main
\* and type = `commonjs`, and touches no other file; in both cases the paths
\* registered for getProjectPathTo stay as they were.
C18_WriteManifest ==
  [][ wres'.call = "writeManifest" =>
        LET self == wrappers[wres'.self]
            path == ManifestPath(self.name)
        IN  /\ wrappers' = wrappers
            /\ passed' = passed
            /\ IF self.name \notin deps
               THEN /\ wres'.kind = "AssertionError"
                    /\ shims' = shims
                    /\ outExists' = outExists
               ELSE /\ wres'.kind = "done"
                    /\ outExists'
                    /\ path \in DOMAIN shims'
                    /\ shims'[path].kind = "manifest"
                    /\ shims'[path].name = self.name
                    /\ shims'[path].version = <<RealManifest(self.name).version, "-pnpify">>
                    /\ shims'[path].main = RealManifest(self.name).main
                    /\ shims'[path].type = "commonjs"
                    /\ DOMAIN shims' = DOMAIN shims \cup {path}
                    /\ \A q \in DOMAIN shims : q # path => shims'[q] = shims[q]
    ]_vars

C18_Witness ==
  /\ wres.call = "writeManifest"
  /\ wres.kind = "AssertionError"
  /\ wrappers[wres.self].name \notin deps
  /\ ~outExists
  /\ shims = NoShims

(***************************************************************************)
(* The onlyBase option (Spec)                                              *)
(***************************************************************************)
\* What a call does, written as functions of what it is handed other than
\* onlyBase: the integrations, the dependencies, verbose and the filesystem
\* it starts from.
EnabledOf(requested, preexisting) ==
  SelectSeq(SUPPORTED_INTEGRATIONS, LAMBDA i : i \in Range(requested) \cup Range(preexisting))

DefaultInvocations(enabled) ==
  LET gens == SelectSeq(enabled, LAMBDA i : HasGenerator(i, "null"))
  IN  [j \in 1..Len(gens) |-> Invocation("default", gens[j], "")]

PackageInvocations(enabled, pkgName) ==
  LET gens == SelectSeq(enabled, LAMBDA i : HasGenerator(i, pkgName))
  IN  <<Invocation("base", "", pkgName)>>
        \o [j \in 1..Len(gens) |-> Invocation("integration", gens[j], pkgName)]

RECURSIVE BaseInvocationsUpTo(_, _, _)
BaseInvocationsUpTo(enabled, dependencies, k) ==
  IF k = 0 THEN <<>>
  ELSE BaseInvocationsUpTo(enabled, dependencies, k - 1)
         \o (IF BASE_SDKS[k] \in dependencies
             THEN PackageInvocations(enabled, BASE_SDKS[k]) ELSE <<>>)

ExpectedInvoked(requested, preexisting, dependencies) ==
  DefaultInvocations(EnabledOf(requested, preexisting))
    \o BaseInvocationsUpTo(EnabledOf(requested, preexisting), dependencies, Len(BASE_SDKS))

\* the warnings a call reports before its first await
StartWarnings(kind, targetExists) ==
  IF kind = "dir" THEN <<LegacyWarning>>
  ELSE IF targetExists THEN <<CleanupWarning>> ELSE <<>>

\* the reports of a completed call after its cleanup warnings
ExpectedReports(requested, preexisting, dependencies, isVerbose) ==
  LET present == SelectSeq(BASE_SDKS, LAMBDA n : n \in dependencies)
      absent  == SelectSeq(BASE_SDKS, LAMBDA n : n \notin dependencies)
      all     == NewSet(requested \o preexisting)
  IN  ((((<<Message("sectionStart", "Generating SDKs", "", 0)>>
         \o [j \in 1..Len(present) |->
               Message("info", "generated", getDisplayName(present[j]), 0)])
         \o (IF absent = <<>> THEN <<>>
             ELSE IF isVerbose
                  THEN [j \in 1..Len(absent) |->
                          Message("warning", "skipped", getDisplayName(absent[j]), 0)]
                  ELSE <<Message("warning", "skippedCount", "", Len(absent))>>))
         \o <<Message("sectionEnd", "Generating SDKs", "", 0)>>)
         \o (IF all = <<>> THEN <<>>
             ELSE (<<Message("sectionStart", "Generating settings", "", 0)>>
                     \o [j \in 1..Len(all) |->
                           Message("info",
                                   IF all[j] \in Range(preexisting) THEN "updated" ELSE "new",
                                   getDisplayName(all[j]), 0)])
                    \o <<Message("sectionEnd", "Generating settings", "", 0)>>))

IsCleanupPrefix(rep) ==
  rep \in {<<>>, <<LegacyWarning>>, <<CleanupWarning>>, <<LegacyWarning, CleanupWarning>>}

\* C19: onlyBase has no effect: the warnings a call starts with are
\* determined by the filesystem it finds, and the generators a completed
\* call has invoked (default and integration generators included, in
\* order), the files it leaves and the reports that follow its warnings are
\* determined by the integrations, the dependencies and verbose; so a call
\* with onlyBase=true and a call with onlyBase=false that agree on these
\* invoke the same generators, leave the same files and report the same.
C19_OnlyBaseIgnored ==
  [][ /\ (pc = "idle" /\ pc' # "idle") =>
           reports' = StartWarnings(legacy, outExists)
      /\ pc = "legacyRemove" =>
           reports' = reports \o (IF outExists THEN <<CleanupWarning>> ELSE <<>>)
      /\ pc' \notin {"idle", "legacyRemove", "cleanRemove", "persist"} =>
           /\ \E n \in 0..Len(invoked') :
                invoked' = SubSeq(ExpectedInvoked(requestedIntegrations',
                                                  preexistingIntegrations', deps'), 1, n)
      /\ pc' = "done" =>
           /\ invoked' = ExpectedInvoked(requestedIntegrations', preexistingIntegrations', deps')
           /\ shims' = ScratchShims(Len(BASE_SDKS))
           /\ ymlFile' = ScratchYml(requestedIntegrations', preexistingIntegrations')
           /\ \E n \in 0..2 :
                /\ n <= Len(reports')
                /\ IsCleanupPrefix(SubSeq(reports', 1, n))
                /\ SubSeq(reports', n + 1, Len(reports'))
                     = ExpectedReports(requestedIntegrations', preexistingIntegrations',
                                       deps', verbose')
    ]_vars

C19_Witness ==
  /\ pc = "done"
  /\ onlyBase
  /\ deps = Range(BASE_SDKS)
  /\ Len(allIntegrations) = 2
  /\ \E j \in 1..Len(invoked) : invoked[j].kind = "default"
  /\ \E j \in 1..Len(invoked) : invoked[j].kind = "integration"
  /\ Message("sectionStart", "Generating settings", "", 0) \in Range(reports)

====
